---- MODULE Spec2Model ----
(***************************************************************************)
(* Model of the retrieval core of RAG-Web-Scrapper: src/src/vector_store.py *)
(* (VectorStore over a faiss.IndexFlatL2 and a parallel metadata list),    *)
(* src/src/embedder.py (TextEmbedder.create_embeddings) and the JSON        *)
(* helpers of src/src/utils.py (FileManager.save_json / load_json).         *)
(*                                                                         *)
(* Embedding vectors are represented by two integer coordinates; the       *)
(* vector's dimension is carried next to them as a number.  Python         *)
(* exceptions are represented by the name of their type.                   *)
(***************************************************************************)
EXTENDS Integers, Sequences, FiniteSets, TLC

----------------------------------------------------------------------------
(* Bounds of the model *)

\* largest batch (texts or metadata) handed to one add_documents call
MaxBatch == 1
\* add_documents is not called once a list would grow beyond this length
MaxSize == 3
\* largest top_k used in a search
MaxK == 2
\* largest metadata list held by a store that is saved and loaded
MaxPersist == 2
\* largest number of articles the scraper hands to one request of the app
MaxArticles == 3

----------------------------------------------------------------------------
(* Python values found in metadata dicts, and their JSON form *)

PyNone == [ty |-> "NoneType", v |-> <<>>]
PyStr(s) == [ty |-> "str", v |-> <<s>>]
PyList(ss) == [ty |-> "list", v |-> ss]

\* the dict built by WebScraper.extract_articles for one article; a dict is
\* the sequence of its (key, value) items in insertion order
Article(t) ==
    << <<"url", PyStr("u")>>,
       <<"title", PyStr(t)>>,
       <<"text", PyStr(t)>>,
       <<"authors", PyList(<<"au">>)>>,
       <<"publish_date", IF t = "t0" THEN PyNone ELSE PyStr("2024")>> >>

\* the {} that add_documents supplies when metadata is None
EmptyDict == <<>>

\* json.dump of one value, were None written as the string "None"
JsonEncodeValue_NoneAsStr(pv) ==
    IF pv.ty = "NoneType" THEN [j |-> "string", v |-> <<"None">>]
    ELSE IF pv.ty = "str" THEN [j |-> "string", v |-> pv.v]
    ELSE [j |-> "array", v |-> pv.v]

\* json.dump of one value: None -> null, str -> string, list -> array
JsonEncodeValue(pv) ==
    IF pv.ty = "NoneType" THEN [j |-> "null", v |-> <<>>]
    ELSE IF pv.ty = "str" THEN [j |-> "string", v |-> pv.v]
    ELSE [j |-> "array", v |-> pv.v]

\* json.load of one value: null -> None, string -> str, array -> list
JsonDecodeValue(jv) ==
    IF jv.j = "null" THEN PyNone
    ELSE IF jv.j = "string" THEN [ty |-> "str", v |-> jv.v]
    ELSE [ty |-> "list", v |-> jv.v]

JsonEncodeDict(d) ==
    [i \in 1..Len(d) |-> <<d[i][1], JsonEncodeValue(d[i][2])>>]

JsonDecodeDict(o) ==
    [i \in 1..Len(o) |-> <<o[i][1], JsonDecodeValue(o[i][2])>>]

\* FileManager.save_json: the file content for a list of dicts
save_json(data) == [i \in 1..Len(data) |-> JsonEncodeDict(data[i])]

\* FileManager.load_json: the list of dicts read from a file content
load_json(content) == [i \in 1..Len(content) |-> JsonDecodeDict(content[i])]

----------------------------------------------------------------------------
(* Texts and the embedding model *)

DocTexts == {"t0", "t1", "t2"}
QueryTexts == {"tq", " t1 "}
\* texts of the documents of a store that is saved and loaded
PersistTexts == {"t0", "t1"}

\* DataValidator.clean_text: collapses whitespace and strips
clean_text(t) == IF t = " t1 " THEN "t1" ELSE t

\* output dimension of the sentence-embedding model (all-MiniLM-L6-v2)
EmbedDim == 384

\* SentenceTransformer.encode on one cleaned text: a fixed vector per text
Encode(t) ==
    CASE t = "t0" -> <<0, 0>>
      [] t = "t1" -> <<10, 0>>
      [] t = "t2" -> <<100, 100>>
      [] OTHER    -> <<1, 0>>

\* np.array([]): the one-dimensional empty array
EmptyArray == [ndim |-> 1, d |-> 0, rows |-> <<>>]

\* create_embeddings, were a failed or empty batch returned as an empty
\* array of shape (0, EmbedDim)
create_embeddings_EmptyMatrix(texts, outcome) ==
    IF outcome = "encode_fail" \/ Len(texts) = 0
    THEN [ndim |-> 2, d |-> EmbedDim, rows |-> <<>>]
    ELSE [ndim |-> 2, d |-> EmbedDim,
          rows |-> [i \in 1..Len(texts) |-> Encode(clean_text(texts[i]))]]

\* TextEmbedder.create_embeddings(articles): cleans every text and encodes
\* the batch; an encode failure is logged and np.array([]) is returned.
\* encode of an empty batch also yields the one-dimensional empty array.
create_embeddings(texts, outcome) ==
    IF outcome = "encode_fail" \/ Len(texts) = 0
    THEN EmptyArray
    ELSE [ndim |-> 2, d |-> EmbedDim,
          rows |-> [i \in 1..Len(texts) |-> Encode(clean_text(texts[i]))]]

----------------------------------------------------------------------------
(* The faiss flat L2 index *)

\* dimensions a VectorStore is constructed with (384 is the default)
Dimensions == {384, 128}

\* distance faiss reports for a result position it could not fill
\* (the largest float32); every real distance of the model is below it
PadDistance == 1000000

\* label faiss reports for a result position it could not fill
PadLabel == -1

\* squared Euclidean distance, the metric of IndexFlatL2
L2sqr(a, b) == (a[1] - b[1]) * (a[1] - b[1]) + (a[2] - b[2]) * (a[2] - b[2])

\* Rank, were equal distances ordered by higher slot first
Rank_TiesByHigherSlot(rows, q, s) ==
    Cardinality({u \in 1..Len(rows) :
        \/ L2sqr(q, rows[u].vec) < L2sqr(q, rows[s].vec)
        \/ (L2sqr(q, rows[u].vec) = L2sqr(q, rows[s].vec) /\ u > s)})

\* number of stored slots that come before slot s for query vector q:
\* smaller distance first, equal distances by lower slot
Rank(rows, q, s) ==
    Cardinality({u \in 1..Len(rows) :
        \/ L2sqr(q, rows[u].vec) < L2sqr(q, rows[s].vec)
        \/ (L2sqr(q, rows[u].vec) = L2sqr(q, rows[s].vec) /\ u < s)})

\* IndexFlatL2.search for one query: the labels row I[0] (0-based slots),
\* always k long, padded with -1 when fewer than k vectors are stored
FaissLabels(rows, q, k) ==
    [i \in 1..k |->
        IF i <= Len(rows)
        THEN (CHOOSE s \in 1..Len(rows) : Rank(rows, q, s) = i - 1) - 1
        ELSE PadLabel]

\* IndexFlatL2.search for one query: the distances row D[0]
FaissDistances(rows, q, k) ==
    [i \in 1..k |->
        IF FaissLabels(rows, q, k)[i] = PadLabel
        THEN PadDistance
        ELSE L2sqr(q, rows[FaissLabels(rows, q, k)[i] + 1].vec)]

\* FaissShapeError, were the dimension of x not compared with the index's
FaissShapeError_NoDimCheck(idx, x) ==
    IF x.ndim # 2 THEN "ValueError" ELSE "none"

\* the exception raised by index.add(x) / index.search(x, k) on the shape of
\* x ("none" when x is accepted): n, d = x.shape; assert d == self.d
FaissShapeError(idx, x) ==
    IF x.ndim # 2 THEN "ValueError"
    ELSE IF x.d # idx.d THEN "AssertionError"
    ELSE "none"

----------------------------------------------------------------------------
(* Python list indexing *)

\* whether list[idx] raises IndexError
PyIndexError(list, idx) == idx >= Len(list) \/ idx < 0 - Len(list)

\* list[idx] for an index in range; a negative index counts from the end
PyIndex(list, idx) == IF idx >= 0 THEN list[idx + 1] ELSE list[Len(list) + idx + 1]

----------------------------------------------------------------------------
(* State *)

\* VectorStore.dimension
VARIABLE dimension
\* VectorStore.index: [d, rows]; a row is the stored vector and the metadata
\* its document was prepared with
VARIABLE index
\* VectorStore.metadata: list of dicts
VARIABLE metadata
\* the two files under the store's path
VARIABLE disk
\* the store as it was when save last completed
VARIABLE saved
\* the last call made on the store and its outcome
VARIABLE call

vars == <<dimension, index, metadata, disk, saved, call>>

NoCall ==
    [op |-> "init", err |-> "none", nTexts |-> 0, nMeta |-> 0,
     outcome |-> "ok", query |-> "", k |-> 0, labels |-> <<>>, results |-> <<>>]

MissingFile == [st |-> "missing", content |-> <<>>]
UnreadableFile == [st |-> "unreadable", content |-> <<>>]

NotSaved == [valid |-> FALSE, index |-> [d |-> 0, rows |-> <<>>], metadata |-> <<>>]

\* VectorStore.__init__: an empty IndexFlatL2 of the given dimension and an
\* empty metadata list
NewIndex(dim) == [d |-> dim, rows |-> <<>>]

Init ==
    /\ dimension \in Dimensions
    /\ index = NewIndex(dimension)
    /\ metadata = <<>>
    /\ disk = [indexFile |-> MissingFile, metaFile |-> MissingFile]
    /\ saved = NotSaved
    /\ call = NoCall

\* constructing a new VectorStore (app.py builds one per request)
Construct(dim) ==
    /\ dimension' = dim
    /\ index' = NewIndex(dim)
    /\ metadata' = <<>>
    /\ call' = [NoCall EXCEPT !.op = "construct"]
    /\ UNCHANGED <<disk, saved>>

----------------------------------------------------------------------------
(* add_documents *)

\* the metadata argument: None or a list of dicts
NoneArg == [given |-> FALSE, list |-> <<>>]
ListArg(l) == [given |-> TRUE, list |-> l]

\* lines 35-36: metadata = [{}] * len(texts) when None was passed
EffectiveMetadata(texts, marg) ==
    IF marg.given THEN marg.list ELSE [i \in 1..Len(texts) |-> EmptyDict]

Min(a, b) == IF a <= b THEN a ELSE b

\* lines 44-49: zip(texts, metadata) stops at the shorter of the two
PreparedDocs(texts, meta) ==
    [i \in 1..Min(Len(texts), Len(meta)) |-> [text |-> texts[i], metadata |-> meta[i]]]

PreparedTexts(docs) == [i \in 1..Len(docs) |-> docs[i].text]

\* outcomes of building the embedder and running the model
EmbedOutcomes == {"ok", "load_fail", "encode_fail"}

AddDocuments(texts, marg, outcome) ==
    LET meta == EffectiveMetadata(texts, marg)
        docs == PreparedDocs(texts, meta)
        emb  == create_embeddings(PreparedTexts(docs), outcome)
        shapeErr == FaissShapeError(index, emb)
        err  == IF outcome = "load_fail" THEN "Exception" ELSE shapeErr
        done == [NoCall EXCEPT !.op = "add", !.err = err,
                               !.nTexts = Len(texts),
                               !.nMeta = IF marg.given THEN Len(marg.list) ELSE -1,
                               !.outcome = outcome]
    IN
    /\ Len(metadata) + Len(meta) <= MaxSize
    /\ Len(index.rows) + Len(docs) <= MaxSize
    /\ call' = done
    /\ IF err # "none"
       THEN UNCHANGED <<index, metadata>>
       ELSE /\ index' = [index EXCEPT !.rows = index.rows \o
                            [i \in 1..Len(emb.rows) |->
                                [vec |-> emb.rows[i], doc |-> docs[i].metadata]]]
            /\ metadata' = metadata \o meta
    /\ UNCHANGED <<dimension, disk, saved>>

----------------------------------------------------------------------------
(* search *)

\* lines 82-88: one result per returned label, in the order faiss returned
\* them; self.metadata[idx] is a Python list lookup
BuildResults(meta, labels, distances) ==
    [i \in 1..Len(labels) |->
        [metadata |-> PyIndex(meta, labels[i]), distance |-> distances[i]]]

\* what search(query, top_k) does on a store (idx, meta): the exception it
\* raises ("none" when it returns), the labels faiss returned and the list
\* it returns
SearchOutcome(idx, meta, query, top_k, outcome) ==
    LET qe == create_embeddings(<<query>>, outcome)
        shapeErr == FaissShapeError(idx, qe)
        labels == FaissLabels(idx.rows, qe.rows[1], top_k)
        distances == FaissDistances(idx.rows, qe.rows[1], top_k)
    IN
    IF outcome = "load_fail" THEN [err |-> "Exception", labels |-> <<>>, results |-> <<>>]
    ELSE IF shapeErr # "none" THEN [err |-> shapeErr, labels |-> <<>>, results |-> <<>>]
    ELSE IF \E i \in 1..top_k : PyIndexError(meta, labels[i])
    THEN [err |-> "IndexError", labels |-> labels, results |-> <<>>]
    ELSE [err |-> "none", labels |-> labels,
          results |-> BuildResults(meta, labels, distances)]

\* Search, were the query embedding also added to the index
Search_AddsQuery(query, top_k, outcome) ==
    LET r == SearchOutcome(index, metadata, query, top_k, outcome) IN
    /\ call' = [NoCall EXCEPT !.op = "search", !.err = r.err, !.outcome = outcome,
                              !.query = query, !.k = top_k,
                              !.labels = r.labels, !.results = r.results]
    /\ index' = IF outcome = "ok" /\ Len(index.rows) < MaxSize
                THEN [index EXCEPT !.rows = index.rows \o
                        <<[vec |-> Encode(clean_text(query)), doc |-> EmptyDict]>>]
                ELSE index
    /\ UNCHANGED <<dimension, metadata, disk, saved>>

Search(query, top_k, outcome) ==
    LET r == SearchOutcome(index, metadata, query, top_k, outcome) IN
    /\ call' = [NoCall EXCEPT !.op = "search", !.err = r.err, !.outcome = outcome,
                              !.query = query, !.k = top_k,
                              !.labels = r.labels, !.results = r.results]
    /\ UNCHANGED <<dimension, index, metadata, disk, saved>>

----------------------------------------------------------------------------
(* save and load *)

\* where a save can stop: creating the directory, writing the index,
\* opening metadata.json for writing, or dumping the JSON into it
SaveOutcomes == {"ok", "dir_fail", "index_fail", "open_fail", "dump_fail"}

\* faiss.write_index: the index file holds the index
IndexFile(idx) == [st |-> "ok", content |-> idx]

Save(outcome) ==
    /\ call' = [NoCall EXCEPT !.op = "save", !.outcome = outcome,
                              !.err = IF outcome = "ok" THEN "none" ELSE "OSError"]
    /\ disk' =
         CASE outcome = "dir_fail" -> disk
           [] outcome = "index_fail" -> [disk EXCEPT !.indexFile = UnreadableFile]
           [] outcome = "open_fail" -> [disk EXCEPT !.indexFile = IndexFile(index)]
           [] outcome = "dump_fail" ->
                [indexFile |-> IndexFile(index), metaFile |-> UnreadableFile]
           [] OTHER ->
                [indexFile |-> IndexFile(index),
                 metaFile |-> [st |-> "ok", content |-> save_json(metadata)]]
    /\ saved' =
         CASE outcome = "dir_fail" -> saved
           [] outcome = "ok" -> [valid |-> TRUE, index |-> index, metadata |-> metadata]
           [] OTHER -> NotSaved
    /\ UNCHANGED <<dimension, index, metadata>>

\* load: the index is assigned as soon as it is read, the metadata after it;
\* an exception from either read is logged and raised again
Load ==
    LET indexErr == disk.indexFile.st # "ok"
        metaErr == disk.metaFile.st # "ok"
    IN
    /\ call' = [NoCall EXCEPT !.op = "load",
                  !.err = IF indexErr THEN "RuntimeError"
                          ELSE IF disk.metaFile.st = "missing" THEN "FileNotFoundError"
                          ELSE IF metaErr THEN "JSONDecodeError"
                          ELSE "none"]
    /\ index' = IF indexErr THEN index ELSE disk.indexFile.content
    /\ metadata' = IF indexErr \/ metaErr THEN metadata
                   ELSE load_json(disk.metaFile.content)
    /\ UNCHANGED <<dimension, disk, saved>>

----------------------------------------------------------------------------
(* Specifications *)

\* the texts handed to one add_documents call
TextBatches == UNION {[1..m -> DocTexts] : m \in 0..MaxBatch}

\* the article dicts the application builds for a batch of texts
ArticlesOf(texts) == [i \in 1..Len(texts) |-> Article(texts[i])]

\* the metadata handed over with a batch of texts: None, the batch's own
\* articles (as app.py does), that list without its last entry, or that
\* list with one more entry
MetadataArgs(texts) ==
    {NoneArg, ListArg(ArticlesOf(texts)),
     ListArg(ArticlesOf(texts) \o <<Article("t0")>>)}
    \cup (IF Len(texts) = 0 THEN {}
          ELSE {ListArg(SubSeq(ArticlesOf(texts), 1, Len(texts) - 1))})

NextConstruct == \E dim \in Dimensions : Construct(dim)

NextAdd ==
    \E texts \in TextBatches, o \in EmbedOutcomes :
        \E marg \in MetadataArgs(texts) : AddDocuments(texts, marg, o)

NextSearch == \E q \in QueryTexts, k \in 1..MaxK, o \in EmbedOutcomes : Search(q, k, o)

NextSave == \E o \in SaveOutcomes : Save(o)

\* the store in memory: construction, add_documents and search
Next == NextConstruct \/ NextAdd \/ NextSearch

Spec == Init /\ [][Next]_vars

\* The store with its files.  The in-memory store is kept small here: the
\* texts come from PersistTexts, at most MaxPersist entries are held, the
\* embedder works, and the metadata is the batch's own articles, so every
\* add_documents call of this specification has matching lengths.
PersistBatches == UNION {[1..m -> PersistTexts] : m \in 0..MaxBatch}

NextAddPersist ==
    \E texts \in PersistBatches :
        /\ Len(metadata) + Len(texts) <= MaxPersist
        /\ AddDocuments(texts, ListArg(ArticlesOf(texts)), "ok")

NextSearchPersist == \E k \in 1..MaxK : Search("tq", k, "ok")

NextPersist ==
    NextConstruct \/ NextAddPersist \/ NextSearchPersist \/ NextSave \/ Load

SpecPersist == Init /\ [][NextPersist]_vars

----------------------------------------------------------------------------
(* The application's request cycle *)

\* top_k of the application's search
AppTopK == 3

\* number of characters of a document's text that go into the prompt
ContextBudget == 500

\* dict.get(key, default) on a dict given as its items
DictGet(d, key, default) ==
    IF \E i \in 1..Len(d) : d[i][1] = key
    THEN d[CHOOSE i \in 1..Len(d) : d[i][1] = key][2]
    ELSE default

\* len() of a text; the scraper keeps texts of more than 100 characters
TextLen(t) ==
    CASE t = "t0" -> 120
      [] t = "t1" -> 500
      [] t = "t2" -> 800
      [] OTHER    -> 0

\* the article dicts the scraper can produce
Articles == {Article(t) : t \in DocTexts}

\* the articles the scraper hands to one request
ArticleLists == UNION {[1..m -> Articles] : m \in 0..MaxArticles}

\* [article['text'] for article in articles]
TextsOf(articles) == [i \in 1..Len(articles) |-> DictGet(articles[i], "text", PyStr("")).v[1]]

\* app.py lines 86-88: the metadata of every search result, in result order
ContextDocs(results) == [i \in 1..Len(results) |-> results[i].metadata]

\* generate_response lines 68-72: per context document its title and the
\* slice text[:500], given by the text and the number of characters taken
PromptContext(docs) ==
    [i \in 1..Len(docs) |->
        [title |-> DictGet(docs[i], "title", PyStr("Untitled")),
         text  |-> DictGet(docs[i], "text", PyStr("")),
         chars |-> Min(TextLen(DictGet(docs[i], "text", PyStr("")).v[1]), ContextBudget)]]

\* the slot whose metadata a label selects in a list of n entries
SlotOfLabel(label, n) == IF label >= 0 THEN label ELSE n + label

\* main(): a new VectorStore, add_documents(texts, metadata=articles), then
\* search(query, top_k=3); an exception of either call ends the request
AppRequest(articles, query, addOutcome, searchOutcome) ==
    LET texts == TextsOf(articles)
        idx0 == NewIndex(EmbedDim)
        docs == PreparedDocs(texts, articles)
        emb  == create_embeddings(PreparedTexts(docs), addOutcome)
        addErr == IF addOutcome = "load_fail" THEN "Exception"
                  ELSE FaissShapeError(idx0, emb)
        idx1 == [idx0 EXCEPT !.rows =
                    [i \in 1..Len(emb.rows) |->
                        [vec |-> emb.rows[i], doc |-> docs[i].metadata]]]
        r == SearchOutcome(idx1, articles, query, AppTopK, searchOutcome)
    IN
    /\ dimension' = EmbedDim
    /\ index' = IF addErr # "none" THEN idx0 ELSE idx1
    /\ metadata' = IF addErr # "none" THEN <<>> ELSE articles
    /\ call' = IF addErr # "none"
               THEN [NoCall EXCEPT !.op = "request", !.err = addErr,
                                   !.nTexts = Len(texts), !.nMeta = Len(articles),
                                   !.outcome = addOutcome, !.query = query]
               ELSE [NoCall EXCEPT !.op = "request", !.err = r.err,
                                   !.nTexts = Len(texts), !.nMeta = Len(articles),
                                   !.outcome = searchOutcome,
                                   !.query = query, !.k = AppTopK,
                                   !.labels = r.labels, !.results = r.results]
    /\ UNCHANGED <<disk, saved>>

\* A request builds its store anew and reads nothing of the state before
\* it, so the states after any request are the states after a first one;
\* only first requests are explored.
NextRequest ==
    /\ call.op = "init"
    /\ \E articles \in ArticleLists, q \in QueryTexts,
          oa \in EmbedOutcomes, os \in EmbedOutcomes :
            AppRequest(articles, q, oa, os)

\* the application serving a request
SpecApp == Init /\ [][NextRequest]_vars

----------------------------------------------------------------------------
(* Properties of add_documents *)

\* C1: in every reachable state the number of vectors in the index equals
\* the length of the metadata list.
C1_AlignmentInvariant == Len(index.rows) = Len(metadata)

\* C2: an add_documents call whose texts and metadata differ in length
\* fails and changes neither the index nor the metadata list.  (The claim
\* names the error ArityMismatch; any raised error is accepted here.)
C2_ArityMismatchRejected ==
    [][(call'.op = "add" /\ call'.nMeta # -1 /\ call'.nTexts # call'.nMeta)
         => (call'.err # "none" /\ index' = index /\ metadata' = metadata)]_vars

\* C9: an add_documents call during which producing the embeddings fails
\* raises an error and leaves index and metadata list as they were.
C9_EmbeddingFailureAborts ==
    [][(call'.op = "add" /\ call'.outcome # "ok")
         => (call'.err # "none" /\ index' = index /\ metadata' = metadata)]_vars

\* an add_documents call of one text on a non-empty store during which the
\* model failed to encode, and which raised
C9_Witness ==
    /\ call.op = "add"
    /\ call.outcome = "encode_fail"
    /\ call.nTexts = 1
    /\ call.err = "ValueError"
    /\ Len(index.rows) >= 1
    /\ Len(metadata) = Len(index.rows)

----------------------------------------------------------------------------
(* Properties of search *)

\* a store built with the embedder's dimension whose index and metadata
\* list have the same length
AlignedStore == index.d = EmbedDim /\ Len(index.rows) = Len(metadata)

\* C3: on a store of size N >= 1, search with top_k >= 1 does not fail and
\* returns exactly min(top_k, N) results.
C3_ResultCount ==
    (call.op = "search" /\ call.outcome = "ok" /\ AlignedStore /\ Len(index.rows) >= 1)
        => (call.err = "none" /\ Len(call.results) = Min(call.k, Len(index.rows)))

\* C4: search on a store that holds no documents returns an empty list and
\* does not raise.
C4_EmptyStoreSearch ==
    (call.op = "search" /\ call.outcome = "ok" /\ AlignedStore /\ Len(index.rows) = 0)
        => (call.err = "none" /\ call.results = <<>>)

\* C5: every result of a search is built from a slot s in 0..N-1: it pairs
\* the distance between the query vector and the vector stored at s with the
\* metadata supplied for the document inserted at s.
C5_ResultsFromStoredSlots ==
    (call.op = "search" /\ call.err = "none" /\ AlignedStore)
        => \A i \in 1..Len(call.results) :
              /\ call.labels[i] \in 0..(Len(index.rows) - 1)
              /\ call.results[i].metadata = index.rows[call.labels[i] + 1].doc
              /\ call.results[i].distance =
                    L2sqr(Encode(clean_text(call.query)), index.rows[call.labels[i] + 1].vec)

\* the store of the scenario: (0,0), (1,0), (10,10) inserted in that order,
\* on a grid ten times finer
ScenarioStore ==
    /\ Len(index.rows) = 3
    /\ index.rows[1].vec = <<0, 0>>
    /\ index.rows[2].vec = <<10, 0>>
    /\ index.rows[3].vec = <<100, 100>>

----------------------------------------------------------------------------
(* Properties of save and load *)

\* C7: load never returns normally with a store whose index size and
\* metadata length disagree.
C7_LoadValidatesAlignment ==
    (call.op = "load" /\ call.err = "none") => Len(index.rows) = Len(metadata)

\* C8: a load that fails leaves the index and the metadata list of the
\* in-memory store as they were before the call.
C8_FailedLoadKeepsStore ==
    [][(call'.op = "load" /\ call'.err # "none")
         => (index' = index /\ metadata' = metadata)]_vars

\* C10: after a completed save, a load that returns gives a store of the
\* saved size, with the saved metadata at every slot, whose search returns
\* for every query and top_k what the saved store's search returns.
C10_SaveLoadRoundTrip ==
    (call.op = "load" /\ call.err = "none" /\ saved.valid)
        => /\ Len(index.rows) = Len(saved.index.rows)
           /\ metadata = saved.metadata
           /\ \A q \in QueryTexts, k \in 1..MaxK :
                SearchOutcome(index, metadata, q, k, "ok")
                  = SearchOutcome(saved.index, saved.metadata, q, k, "ok")

\* a load has returned the store of a completed save that holds two
\* documents, one with a None and a list among its metadata values
C10_Witness ==
    /\ call.op = "load"
    /\ call.err = "none"
    /\ saved.valid
    /\ Len(saved.metadata) = 2
    /\ saved.metadata[1] = Article("t0")
    /\ metadata = saved.metadata

----------------------------------------------------------------------------
(* Dimension enforcement, growth and the frame of search *)

\* C11: on a store whose index has another dimension than the embedder's
\* output, every add_documents call raises and leaves the index and the
\* metadata list unchanged; when vectors were produced for the call, the
\* error is the one the index raises on their dimension.
C11_DimensionEnforced ==
    [][(call'.op = "add" /\ index.d # EmbedDim)
         => /\ call'.err # "none"
            /\ index' = index
            /\ metadata' = metadata
            /\ (call'.outcome = "ok" /\ call'.nTexts >= 1 /\ call'.nMeta # 0)
                  => call'.err = "AssertionError"]_vars

\* add_documents of one text with its article on a store of dimension 128
\* has raised on the vector's dimension
C11_Witness ==
    /\ call.op = "add"
    /\ call.outcome = "ok"
    /\ call.nTexts = 1
    /\ call.nMeta = 1
    /\ call.err = "AssertionError"
    /\ index.d = 128
    /\ dimension = 128
    /\ index.rows = <<>>
    /\ metadata = <<>>

\* C12: a successful add_documents call with n texts on a store of size N
\* keeps the vectors and metadata at slots 0..N-1, gives the new documents
\* the slots N..N+n-1 with their own metadata, and ends with size N+n.
C12_GrowsByBatch ==
    [][(call'.op = "add" /\ call'.err = "none" /\ Len(index.rows) = Len(metadata))
         => /\ SubSeq(index'.rows, 1, Len(index.rows)) = index.rows
            /\ SubSeq(metadata', 1, Len(metadata)) = metadata
            /\ Len(index'.rows) = Len(index.rows) + call'.nTexts
            /\ Len(metadata') = Len(metadata) + call'.nTexts
            /\ \A i \in (Len(index.rows) + 1)..Len(index'.rows) :
                  i <= Len(metadata') /\ metadata'[i] = index'.rows[i].doc]_vars

\* C14: a search, whether it returns or raises, leaves the index contents,
\* the index size and the metadata list as they were.
C14_SearchIsReadOnly ==
    [][(call'.op = "search")
         => (index' = index /\ metadata' = metadata /\ dimension' = dimension)]_vars

\* a search on a store of two documents has raised because the query could
\* not be encoded
C14_Witness ==
    /\ call.op = "search"
    /\ call.outcome = "encode_fail"
    /\ call.err = "ValueError"
    /\ Len(index.rows) = 2
    /\ Len(metadata) = 2

----------------------------------------------------------------------------
(* The context handed to the generation model *)

\* C13: after a request that reached the generation step, the context
\* documents are in rank order, no stored document (slot) occurs among them
\* more than once, and each contributes at most 500 characters of text.
C13_ContextRankedDistinctBounded ==
    (call.op = "request" /\ call.err = "none")
        => /\ Len(ContextDocs(call.results)) = Len(call.labels)
           /\ \A i, j \in 1..Len(call.results) :
                i < j =>
                  /\ call.results[i].distance <= call.results[j].distance
                  /\ SlotOfLabel(call.labels[i], Len(metadata))
                        # SlotOfLabel(call.labels[j], Len(metadata))
           /\ \A i \in 1..Len(call.results) :
                /\ ContextDocs(call.results)[i] =
                      metadata[SlotOfLabel(call.labels[i], Len(metadata)) + 1]
                /\ PromptContext(ContextDocs(call.results))[i].chars <= ContextBudget

====
